---- MODULE Spec2Model ----
(***************************************************************************)
(* FitAI (psps16/fitness_ai): the chat session of src/main.py, the profile *)
(* update tools of src/agent/tools.py, the conversation wrapper of         *)
(* src/agent/fitness_agent.py, the data model of src/models/models.py and  *)
(* the SQLite gateway of src/models/database.py.                           *)
(*                                                                         *)
(* Text is modelled at the level of words: a message is the sequence of    *)
(* its whitespace separated words, a number is the word that spells it.    *)
(* Optional values (Optional[...] / None) are sequences of length <= 1.    *)
(* Timestamps are the readings of a clock that ticks at every              *)
(* datetime.now().  The text the language model returns is opaque: the     *)
(* n-th generated plan text is identified by n, a chat reply by the        *)
(* message it answers.                                                     *)
(***************************************************************************)
EXTENDS Integers, Sequences, FiniteSets, TLC

(***************************************************************************)
(* Bounds of the model (not program constants).                            *)
(***************************************************************************)
\* turns exchanged in the session before the one modelled
MaxPrior == 5
\* free-text messages and /update commands handled in one session
MaxOps == 2

(***************************************************************************)
(* models/models.py, agent/tools.py: enumerations and validation ranges.   *)
(***************************************************************************)
ACTIVITY_LEVELS == <<"Sedentary", "Moderate", "Active">>
FITNESS_GOALS == <<"Weight Loss", "Muscle Gain", "Endurance">>
DIETARY_PREFERENCES == <<"Vegan", "Vegetarian", "Non-vegetarian">>

MinWeight == 30
MaxWeight == 300
MinHeight == 100
MaxHeight == 250
MinAge == 12
MaxAge == 120
\* setup_llm keeps the last 10 interactions
HistoryWindow == 10

Range(s) == {s[i] : i \in DOMAIN s}

(***************************************************************************)
(* Words.  str.lower(), float(), int() and str.capitalize() are tables     *)
(* over the words that occur in the modelled inputs.                       *)
(***************************************************************************)
Lower(w) ==
  CASE w = "I" -> "i"
    [] w = "I've" -> "i've"
    [] w = "Yes" -> "yes"
    [] w = "/HELP" -> "/help"
    [] w = "--EXIT" -> "--exit"
    [] OTHER -> w

LowerAll(msg) == [i \in DOMAIN msg |-> Lower(msg[i])]

\* the words matched by \d+\.?\d* (and by \d+), with the number they spell
NumWords == {"1", "3", "9", "5", "21", "30", "31", "40", "80", "90", "130", "175", "180", "300", "500"}

NumVal(w) ==
  CASE w = "1" -> 1
    [] w = "3" -> 3
    [] w = "9" -> 9
    [] w = "5" -> 5
    [] w = "21" -> 21
    [] w = "30" -> 30
    [] w = "31" -> 31
    [] w = "40" -> 40
    [] w = "80" -> 80
    [] w = "90" -> 90
    [] w = "130" -> 130
    [] w = "175" -> 175
    [] w = "180" -> 180
    [] w = "300" -> 300
    [] w = "500" -> 500

\* words that are not matched whole by \w+ (they hold a non-word character)
NonWords == {"non-vegetarian", "plant-based", "i've", "/help", "/chat", "/workout",
             "/diet", "/plans", "/profile", "/update", "/load_from_memory", "/foo",
             "--exit", "/HELP", "--EXIT", "I've"}

\* words w+"ly" with the w that (\w+)ly captures
LyWords == {"moderately", "actively"}

StripLy(w) ==
  CASE w = "moderately" -> "moderate"
    [] w = "actively" -> "active"
    [] OTHER -> w

Capitalize(w) ==
  CASE w = "sedentary" -> "Sedentary"
    [] w = "moderate" -> "Moderate"
    [] w = "active" -> "Active"
    [] w = "now" -> "Now"
    [] w = "very" -> "Very"
    [] w = "and" -> "And"
    [] w = "low" -> "Low"
    [] OTHER -> w

\* `kw in word`: the substring test on one word
WordContains(w, kw) ==
  \/ w = kw
  \/ w = "non-vegetarian" /\ kw = "vegetarian"
  \/ w = "vegans" /\ kw = "vegan"

\* `phrase in message` for a phrase of one or two words
Mentions(msg, phrase) ==
  \E i \in DOMAIN msg :
    /\ i + Len(phrase) - 1 <= Len(msg)
    /\ IF Len(phrase) = 1
         THEN WordContains(msg[i], phrase[1])
         ELSE msg[i] = phrase[1] /\ msg[i + 1] = phrase[2]

(***************************************************************************)
(* Regular expressions of parse_profile_update, over words.  A pattern is  *)
(* a sequence of elements: a literal word, an optional word out of a set   *)
(* ((?:now |currently )?), a capture group, a word out of a set (the       *)
(* units).  The space before a unit is \s*, so "80kg" reads "80" "kg".     *)
(***************************************************************************)
Lit(w) == [t |-> "lit", ws |-> {w}]
Opt(ws) == [t |-> "opt", ws |-> ws]
Alt(ws) == [t |-> "alt", ws |-> ws]
Num == [t |-> "num", ws |-> {}]
Word == [t |-> "word", ws |-> {}]
WordLy == [t |-> "wordly", ws |-> {}]

KgUnits == {"kg", "kilos", "kilograms"}
CmUnits == {"cm", "centimeters"}
NowCurrently == {"now", "currently"}

\* the templates without "i've lost" and "i've gained"
weight_patterns_without_lost_gained == <<
  <<Lit("my"), Lit("weight"), Lit("is"), Opt(NowCurrently), Num, Alt(KgUnits)>>,
  <<Lit("i"), Opt({"now"}), Lit("weigh"), Num, Alt(KgUnits)>>,
  <<Lit("my"), Lit("weight"), Opt({"has"}), Lit("changed"), Lit("to"), Num, Alt(KgUnits)>>,
  <<Lit("update"), Lit("my"), Lit("weight"), Lit("to"), Num, Alt(KgUnits)>>,
  <<Lit("i"), Lit("am"), Opt(NowCurrently), Num, Alt(KgUnits)>> >>

weight_patterns == <<
  <<Lit("my"), Lit("weight"), Lit("is"), Opt(NowCurrently), Num, Alt(KgUnits)>>,
  <<Lit("i"), Opt({"now"}), Lit("weigh"), Num, Alt(KgUnits)>>,
  <<Lit("i've"), Lit("lost"), Num, Alt(KgUnits)>>,
  <<Lit("i've"), Lit("gained"), Num, Alt(KgUnits)>>,
  <<Lit("my"), Lit("weight"), Opt({"has"}), Lit("changed"), Lit("to"), Num, Alt(KgUnits)>>,
  <<Lit("update"), Lit("my"), Lit("weight"), Lit("to"), Num, Alt(KgUnits)>>,
  <<Lit("i"), Lit("am"), Opt(NowCurrently), Num, Alt(KgUnits)>> >>

height_patterns == <<
  <<Lit("my"), Lit("height"), Lit("is"), Opt(NowCurrently), Num, Alt(CmUnits)>>,
  <<Lit("i"), Lit("am"), Opt({"now"}), Num, Alt(CmUnits), Lit("tall")>>,
  <<Lit("update"), Lit("my"), Lit("height"), Lit("to"), Num, Alt(CmUnits)>> >>

age_patterns == <<
  <<Lit("my"), Lit("age"), Lit("is"), Opt(NowCurrently), Num>>,
  <<Lit("i"), Lit("am"), Opt({"now"}), Num, Lit("years"), Lit("old")>>,
  <<Lit("update"), Lit("my"), Lit("age"), Lit("to"), Num>>,
  <<Lit("i"), Lit("turned"), Num>> >>

activity_patterns == <<
  <<Lit("my"), Lit("activity"), Lit("level"), Lit("is"), Opt(NowCurrently), Word>>,
  <<Lit("i"), Lit("am"), Opt({"now"}), WordLy, Lit("active")>>,
  <<Lit("update"), Lit("my"), Lit("activity"), Lit("level"), Lit("to"), Word>> >>

NoMatch == "<no match>"

\* the capture of pattern pat matched at word i of msg from element k on
\* (greedy, backtracking over the optional element), or NoMatch
RECURSIVE MatchFrom(_, _, _, _, _)
MatchFrom(pat, k, msg, i, cap) ==
  IF k > Len(pat) THEN cap
  ELSE LET e == pat[k] IN
    IF e.t = "opt"
      THEN LET taken == IF i <= Len(msg) /\ msg[i] \in e.ws
                          THEN MatchFrom(pat, k + 1, msg, i + 1, cap)
                          ELSE NoMatch
           IN IF taken # NoMatch THEN taken ELSE MatchFrom(pat, k + 1, msg, i, cap)
    ELSE IF i > Len(msg) THEN NoMatch
    ELSE IF e.t \in {"lit", "alt"}
      THEN IF msg[i] \in e.ws THEN MatchFrom(pat, k + 1, msg, i + 1, cap) ELSE NoMatch
    ELSE IF e.t = "num"
      THEN IF msg[i] \in NumWords THEN MatchFrom(pat, k + 1, msg, i + 1, msg[i]) ELSE NoMatch
    ELSE IF e.t = "word"
      THEN IF msg[i] \notin NonWords THEN MatchFrom(pat, k + 1, msg, i + 1, msg[i]) ELSE NoMatch
    ELSE IF msg[i] \in LyWords
      THEN MatchFrom(pat, k + 1, msg, i + 1, StripLy(msg[i]))
      ELSE NoMatch

\* re.search(pattern, message): the capture of the leftmost match, or NoMatch
RECURSIVE SearchFrom(_, _, _)
SearchFrom(pat, msg, i) ==
  IF i > Len(msg) THEN NoMatch
  ELSE LET c == MatchFrom(pat, 1, msg, i, NoMatch)
       IN IF c # NoMatch THEN c ELSE SearchFrom(pat, msg, i + 1)

Search(pat, msg) == SearchFrom(pat, msg, 1)

\* index of the first pattern of pats that matches msg, from pattern k on; 0 if none
RECURSIVE FirstMatching(_, _, _)
FirstMatching(pats, msg, k) ==
  IF k > Len(pats) THEN 0
  ELSE IF Search(pats[k], msg) # NoMatch THEN k
  ELSE FirstMatching(pats, msg, k + 1)

(***************************************************************************)
(* agent/tools.py parse_profile_update.  Each Extract operator gives the   *)
(* value the code puts into `updates` for one field, as an optional.       *)
(***************************************************************************)
\* a numeric field: the first pattern that matches decides (break), its
\* value is kept only when it lies in [lo, hi]
ExtractNumber_unvalidated(pats, msg, lo, hi) ==
  LET k == FirstMatching(pats, msg, 1) IN
    IF k = 0 THEN <<>> ELSE <<NumVal(Search(pats[k], msg))>>

ExtractNumber(pats, msg, lo, hi) ==
  LET k == FirstMatching(pats, msg, 1) IN
    IF k = 0 THEN <<>>
    ELSE LET v == NumVal(Search(pats[k], msg))
         IN IF lo <= v /\ v <= hi THEN <<v>> ELSE <<>>

ExtractWeight(msg) == ExtractNumber(weight_patterns, msg, MinWeight, MaxWeight)

ExtractHeight(msg) == ExtractNumber(height_patterns, msg, MinHeight, MaxHeight)

ExtractAge(msg) == ExtractNumber(age_patterns, msg, MinAge, MaxAge)

\* activity level: the loop breaks only on a capture that is a known level
RECURSIVE ExtractActivityFrom(_, _)
ExtractActivityFrom(msg, k) ==
  IF k > Len(activity_patterns) THEN <<>>
  ELSE LET c == Search(activity_patterns[k], msg) IN
    IF c # NoMatch /\ Capitalize(c) \in Range(ACTIVITY_LEVELS)
      THEN <<Capitalize(c)>>
      ELSE ExtractActivityFrom(msg, k + 1)

ExtractActivity(msg) == ExtractActivityFrom(msg, 1)

\* "build muscle" is not one of the phrases
ExtractGoal_without_build_muscle(msg) ==
  IF Mentions(msg, <<"weight", "loss">>) THEN <<"Weight Loss">>
  ELSE IF Mentions(msg, <<"muscle", "gain">>) THEN <<"Muscle Gain">>
  ELSE <<>>

ExtractGoal(msg) ==
  IF \/ Mentions(msg, <<"weight", "loss">>)
     \/ Mentions(msg, <<"lose", "weight">>)
     \/ Mentions(msg, <<"losing", "weight">>)
    THEN <<"Weight Loss">>
  ELSE IF \/ Mentions(msg, <<"muscle", "gain">>)
          \/ Mentions(msg, <<"build", "muscle">>)
          \/ Mentions(msg, <<"gaining", "muscle">>)
    THEN <<"Muscle Gain">>
  ELSE IF \/ Mentions(msg, <<"endurance">>)
          \/ Mentions(msg, <<"stamina">>)
          \/ Mentions(msg, <<"cardiovascular">>)
    THEN <<"Endurance">>
  ELSE <<>>

ExtractDiet(msg) ==
  IF Mentions(msg, <<"vegan">>) \/ Mentions(msg, <<"plant-based">>)
    THEN <<"Vegan">>
  ELSE IF Mentions(msg, <<"vegetarian">>)
    THEN <<"Vegetarian">>
  ELSE IF \/ Mentions(msg, <<"non-vegetarian">>)
          \/ Mentions(msg, <<"meat">>)
          \/ Mentions(msg, <<"omnivore">>)
    THEN <<"Non-vegetarian">>
  ELSE <<>>

\* the keys of `updates` in insertion order
FieldOrder == <<"weight_kg", "height_cm", "age", "activity_level", "fitness_goal",
                "dietary_preference">>

\* the dict `updates`: a function from the extracted field names to their values
parse_profile_update(message) ==
  LET m == LowerAll(message)
      got == [weight_kg |-> ExtractWeight(m), height_cm |-> ExtractHeight(m),
              age |-> ExtractAge(m), activity_level |-> ExtractActivity(m),
              fitness_goal |-> ExtractGoal(m), dietary_preference |-> ExtractDiet(m)]
  IN [f \in {g \in Range(FieldOrder) : got[g] # <<>>} |-> got[f][1]]

\* list(updates.items()): the extracted fields in insertion order
RECURSIVE ItemsFrom(_, _)
ItemsFrom(updates, k) ==
  IF k > Len(FieldOrder) THEN <<>>
  ELSE IF FieldOrder[k] \in DOMAIN updates
    THEN <<FieldOrder[k]>> \o ItemsFrom(updates, k + 1)
    ELSE ItemsFrom(updates, k + 1)

Items(updates) == ItemsFrom(updates, 1)

(***************************************************************************)
(* models/models.py: the profile and its computed fields.  Weights and     *)
(* heights are whole numbers of kg and cm; a BMI is held in hundredths     *)
(* (26.12 is 2612).                                                        *)
(***************************************************************************)
ProfileFields == {"name", "age", "height_cm", "weight_kg", "activity_level",
                  "fitness_goal", "dietary_preference", "blood_group"}

\* heights h whose (h / 100) ** 2 lies above the exact square in binary
\* floating point: there a quotient that is exactly halfway between two
\* hundredths is computed just below the half, and round() goes down
SquareAboveExact == {112, 160}

\* a BMI computed once, when the profile is created, and stored
bmi_stored(p) == 2449

\* round(weight_kg / (height_cm / 100) ** 2, 2), in hundredths
bmi(p) ==
  LET n == p.weight_kg * 1000000
      d == p.height_cm * p.height_cm
      q == n \div d
      r == n % d
  IN IF 2 * r > d THEN q + 1
     ELSE IF 2 * r < d THEN q
     ELSE IF p.height_cm \in SquareAboveExact THEN q
     ELSE IF q % 2 = 0 THEN q ELSE q + 1

\* the boundary values fall into the lower category
bmi_category_inclusive(p) ==
  IF bmi(p) <= 1850 THEN "Underweight"
  ELSE IF bmi(p) <= 2500 THEN "Normal"
  ELSE IF bmi(p) <= 3000 THEN "Overweight"
  ELSE "Obese"

bmi_category(p) ==
  IF bmi(p) < 1850 THEN "Underweight"
  ELSE IF 1850 <= bmi(p) /\ bmi(p) < 2500 THEN "Normal"
  ELSE IF 2500 <= bmi(p) /\ bmi(p) < 3000 THEN "Overweight"
  ELSE "Obese"

\* Message(user_message, bot_reply), stamped with datetime.now() = t
Message(t, user_message, bot_reply) ==
  [timestamp |-> t, user_message |-> user_message, bot_reply |-> bot_reply]

\* WorkoutPlan(plan_text) / DietPlan(plan_text), stamped with datetime.now() = t
Plan(t, plan_text) == [last_updated |-> t, plan_text |-> plan_text]

\* the history is replaced by the new turn
add_message_resetting(u, t, user_message, bot_reply) ==
  [u EXCEPT !.conversation_history = <<Message(t, user_message, bot_reply)>>]

\* User.add_message
add_message(u, t, user_message, bot_reply) ==
  [u EXCEPT !.conversation_history = Append(@, Message(t, user_message, bot_reply))]

(***************************************************************************)
(* models/database.py.  The database holds the rows of one user:           *)
(*   users                 the profile_json of the user, if any            *)
(*   workout_plans         the row of the user, if any                     *)
(*   diet_plans            the row of the user, if any                     *)
(*   conversation_history  the rows of the user in rowid order             *)
(* datetime.isoformat() gives a text, fromisoformat() reads it back.       *)
(***************************************************************************)
IsoFormat(t) == [iso |-> t]

FromIsoFormat(s) == s.iso

\* user.model_dump_json(): every field, the computed fields included
ModelDumpJson(u) ==
  [user_id |-> u.user_id,
   profile_data |-> [f \in ProfileFields \cup {"bmi", "bmi_category"} |->
                       IF f = "bmi" THEN bmi(u.profile_data)
                       ELSE IF f = "bmi_category" THEN bmi_category(u.profile_data)
                       ELSE u.profile_data[f]],
   workout_plan |-> [i \in DOMAIN u.workout_plan |->
                       [last_updated |-> IsoFormat(u.workout_plan[i].last_updated),
                        plan_text |-> u.workout_plan[i].plan_text]],
   diet_plan |-> [i \in DOMAIN u.diet_plan |->
                    [last_updated |-> IsoFormat(u.diet_plan[i].last_updated),
                     plan_text |-> u.diet_plan[i].plan_text]],
   conversation_history |-> [i \in DOMAIN u.conversation_history |->
                               [timestamp |-> IsoFormat(u.conversation_history[i].timestamp),
                                user_message |-> u.conversation_history[i].user_message,
                                bot_reply |-> u.conversation_history[i].bot_reply]]]

\* User.model_validate_json(): the computed fields of the text are ignored
ModelValidateJson(j) ==
  [user_id |-> j.user_id,
   profile_data |-> [f \in ProfileFields |-> j.profile_data[f]],
   workout_plan |-> [i \in DOMAIN j.workout_plan |->
                       Plan(FromIsoFormat(j.workout_plan[i].last_updated),
                            j.workout_plan[i].plan_text)],
   diet_plan |-> [i \in DOMAIN j.diet_plan |->
                    Plan(FromIsoFormat(j.diet_plan[i].last_updated),
                         j.diet_plan[i].plan_text)],
   conversation_history |-> [i \in DOMAIN j.conversation_history |->
                               Message(FromIsoFormat(j.conversation_history[i].timestamp),
                                       j.conversation_history[i].user_message,
                                       j.conversation_history[i].bot_reply)]]

PlanRow(plan) == [last_updated |-> IsoFormat(plan.last_updated), plan_text |-> plan.plan_text]

MessageRow(m) ==
  [timestamp |-> IsoFormat(m.timestamp), user_message |-> m.user_message,
   bot_reply |-> m.bot_reply]

\* save_user: INSERT OR REPLACE of the profile and of each plan that exists,
\* INSERT of one row per message of user.conversation_history, one commit
save_user(u, d) ==
  [users |-> <<ModelDumpJson(u)>>,
   workout_plans |-> IF u.workout_plan # <<>> THEN <<PlanRow(u.workout_plan[1])>>
                     ELSE d.workout_plans,
   diet_plans |-> IF u.diet_plan # <<>> THEN <<PlanRow(u.diet_plan[1])>>
                  ELSE d.diet_plans,
   conversation_history |->
     d.conversation_history \o
       [i \in DOMAIN u.conversation_history |-> MessageRow(u.conversation_history[i])]]

\* save_message: INSERT of one row stamped with its own datetime.now() = t
save_message(d, t, user_message, bot_reply) ==
  [d EXCEPT !.conversation_history =
     Append(@, [timestamp |-> IsoFormat(t), user_message |-> user_message,
                bot_reply |-> bot_reply])]

\* ORDER BY timestamp ASC: rows in timestamp order, equal timestamps in rowid order
RECURSIVE InsertByTimestamp(_, _)
InsertByTimestamp(sorted, row) ==
  IF sorted = <<>> THEN <<row>>
  ELSE IF sorted[Len(sorted)].timestamp.iso <= row.timestamp.iso
    THEN Append(sorted, row)
    ELSE Append(InsertByTimestamp(SubSeq(sorted, 1, Len(sorted) - 1), row),
                sorted[Len(sorted)])

RECURSIVE OrderByTimestamp(_)
OrderByTimestamp(rows) ==
  IF rows = <<>> THEN <<>>
  ELSE InsertByTimestamp(OrderByTimestamp(SubSeq(rows, 1, Len(rows) - 1)), rows[Len(rows)])

\* get_user: the stored user as an optional
get_user(d) ==
  IF d.users = <<>> THEN <<>>
  ELSE LET u == ModelValidateJson(d.users[1])
           rows == OrderByTimestamp(d.conversation_history)
       IN << [u EXCEPT
               !.workout_plan =
                 IF d.workout_plans # <<>>
                   THEN <<Plan(FromIsoFormat(d.workout_plans[1].last_updated),
                               d.workout_plans[1].plan_text)>>
                   ELSE @,
               !.diet_plan =
                 IF d.diet_plans # <<>>
                   THEN <<Plan(FromIsoFormat(d.diet_plans[1].last_updated),
                               d.diet_plans[1].plan_text)>>
                   ELSE @,
               !.conversation_history =
                 [i \in DOMAIN rows |->
                    Message(FromIsoFormat(rows[i].timestamp), rows[i].user_message,
                            rows[i].bot_reply)]] >>

(***************************************************************************)
(* models/database.py: credentials.  The auth table is a function from the *)
(* usernames that have a row to the row.                                   *)
(***************************************************************************)
\* sha256(password).hexdigest(): one text per password
hash_password(password) == [sha256 |-> password]

NoRows == [n \in {} |-> 0]

AuthRow(password, user_id) ==
  [password_hash |-> hash_password(password), user_id |-> user_id]

\* INSERT OR REPLACE instead of the SELECT and the INSERT
register_user_overwriting(a, username, password, u, ok) ==
  IF ~ok THEN [auth |-> a, success |-> FALSE]
  ELSE [auth |-> [n \in DOMAIN a \cup {username} |->
                    IF n = username THEN AuthRow(password, u.user_id) ELSE a[n]],
        success |-> TRUE]

\* register_user on the auth table a: the table afterwards and the result;
\* ~ok is a sqlite3.Error
register_user(a, username, password, u, ok) ==
  IF ~ok THEN [auth |-> a, success |-> FALSE]
  ELSE IF username \in DOMAIN a THEN [auth |-> a, success |-> FALSE]
  ELSE [auth |-> [n \in DOMAIN a \cup {username} |->
                    IF n = username THEN AuthRow(password, u.user_id) ELSE a[n]],
        success |-> TRUE]

\* authenticate_user: the user_id of the row with this username and this
\* password hash, as an optional
authenticate_user(a, username, password) ==
  IF username \in DOMAIN a /\ a[username].password_hash = hash_password(password)
    THEN <<a[username].user_id>>
    ELSE <<>>

(***************************************************************************)
(* agent/fitness_agent.py: the conversation object and the plan generator. *)
(***************************************************************************)
\* the f-string of setup_llm: the values read from the user when it is built
SystemPrompt(u) ==
  [name |-> u.profile_data.name,
   age |-> u.profile_data.age,
   height_cm |-> u.profile_data.height_cm,
   weight_kg |-> u.profile_data.weight_kg,
   bmi |-> bmi(u.profile_data),
   bmi_category |-> bmi_category(u.profile_data),
   activity_level |-> u.profile_data.activity_level,
   fitness_goal |-> u.profile_data.fitness_goal,
   dietary_preference |-> u.profile_data.dietary_preference,
   workout_plan |-> [i \in DOMAIN u.workout_plan |-> u.workout_plan[i].plan_text],
   diet_plan |-> [i \in DOMAIN u.diet_plan |-> u.diet_plan[i].plan_text]]

\* seq[-n:]
LastN(seq, n) == IF Len(seq) <= n THEN seq ELSE SubSeq(seq, Len(seq) - n + 1, Len(seq))

HumanMessage(content) == [role |-> "human", content |-> content]

AIMessage(content) == [role |-> "ai", content |-> content]

\* the chat_history list built by setup_llm from the last interactions
RECURSIVE HistoryMessages(_)
HistoryMessages(recent_history) ==
  IF recent_history = <<>> THEN <<>>
  ELSE <<HumanMessage(recent_history[1].user_message), AIMessage(recent_history[1].bot_reply)>>
         \o HistoryMessages(Tail(recent_history))

\* setup_llm(user): the ConversationWrapper, its prompt fixed when it is built
setup_llm(u) ==
  [system_prompt |-> SystemPrompt(u),
   chat_history |-> HistoryMessages(LastN(u.conversation_history, HistoryWindow))]

\* what chain.invoke(input) hands to the model
ChainInput(conv, input) ==
  [system_prompt |-> conv.system_prompt, chat_history |-> conv.chat_history,
   input |-> input]

\* ConversationWrapper.predict once chain.invoke has returned response
predict(conv, input, response) ==
  [conv EXCEPT !.chat_history = @ \o <<HumanMessage(input), AIMessage(response)>>]

\* generate_workout_diet_plans: the two texts cut out of the model's n-th
\* plan response; the call raises when the model call or the split fails
WorkoutText(n) == [section |-> "WORKOUT PLAN:", response |-> n]

DietText(n) == [section |-> "DIET PLAN:", response |-> n]

(***************************************************************************)
(* agent/tools.py: update_user_profile, update_user_plans.  A call that    *)
(* can raise gives a record with the user and database it leaves behind    *)
(* and `raised`, the exception that left it ("" when it returned).         *)
(***************************************************************************)
Returned(u, d) == [user |-> u, db |-> d, raised |-> ""]

RaisedIn(u, d, exc) == [user |-> u, db |-> d, raised |-> exc]

\* the attribute is set and the user is not saved
update_user_profile_unsaved(u, d, field, new_value, save_ok) ==
  IF field \in ProfileFields
    THEN Returned([u EXCEPT !.profile_data[field] = new_value], d)
    ELSE RaisedIn(u, d, "ValueError")

\* an error of save_user is caught inside and the user is returned
update_user_profile_swallowing(u, d, field, new_value, save_ok) ==
  IF field \in ProfileFields
    THEN LET u2 == [u EXCEPT !.profile_data[field] = new_value]
         IN Returned(u2, IF save_ok THEN save_user(u2, d) ELSE d)
    ELSE RaisedIn(u, d, "ValueError")

\* update_user_profile(user, field, new_value); save_ok: save_user succeeds.
\* field: a profile field, or a name for which hasattr is false (names of
\* computed properties and of methods are not modelled)
update_user_profile(u, d, field, new_value, save_ok) ==
  IF field \in ProfileFields
    THEN LET u2 == [u EXCEPT !.profile_data[field] = new_value]
         IN IF save_ok THEN Returned(u2, save_user(u2, d))
            ELSE RaisedIn(u2, d, "sqlite3.Error")
    ELSE RaisedIn(u, d, "ValueError")

\* the plans are cleared before the generator is called
update_user_plans_clearing(u, d, response, t, save_ok) ==
  IF response = <<>>
    THEN [user |-> [u EXCEPT !.workout_plan = <<>>, !.diet_plan = <<>>], db |-> d,
          raised |-> "generate"]
  ELSE LET u2 == [u EXCEPT !.workout_plan = <<[last_updated |-> t,
                                                plan_text |-> WorkoutText(response[1])]>>,
                           !.diet_plan = <<[last_updated |-> t + 1,
                                            plan_text |-> DietText(response[1])]>>]
       IN IF save_ok THEN [user |-> u2, db |-> save_user(u2, d), raised |-> ""]
          ELSE [user |-> u2, db |-> d, raised |-> "sqlite3.Error"]

\* only the workout plan is replaced
update_user_plans_workout_only(u, d, response, t, save_ok) ==
  IF response = <<>> THEN [user |-> u, db |-> d, raised |-> "generate"]
  ELSE LET u2 == [u EXCEPT !.workout_plan = <<[last_updated |-> t,
                                                plan_text |-> WorkoutText(response[1])]>>]
       IN IF save_ok THEN [user |-> u2, db |-> save_user(u2, d), raised |-> ""]
          ELSE [user |-> u2, db |-> d, raised |-> "sqlite3.Error"]

\* update_user_plans(user); response: the plan response of the model as an
\* optional (none: generate_workout_diet_plans raises); t: the clock
update_user_plans(u, d, response, t, save_ok) ==
  IF response = <<>> THEN RaisedIn(u, d, "generate")
  ELSE LET u2 == [u EXCEPT !.workout_plan = <<Plan(t, WorkoutText(response[1]))>>,
                           !.diet_plan = <<Plan(t + 1, DietText(response[1]))>>]
       IN IF save_ok THEN Returned(u2, save_user(u2, d))
          ELSE RaisedIn(u2, d, "sqlite3.Error")

\* there is no handler around update_user_profile: a ValueError leaves the loop
RECURSIVE ApplyUpdates_unguarded(_, _, _, _, _, _)
ApplyUpdates_unguarded(u, d, updates, items, k, fail_at) ==
  IF k > Len(items) THEN Returned(u, d)
  ELSE LET r == update_user_profile(u, d, items[k], updates[items[k]], k # fail_at)
       IN IF r.raised = ""
            THEN ApplyUpdates_unguarded(r.user, r.db, updates, items, k + 1, fail_at)
            ELSE r

\* the loop `for field, value in updates.items()` of handle_profile_updates,
\* from item k on; fail_at: the item whose save_user fails (0: none).
\* ValueError is caught and the loop goes on; any other exception leaves it.
RECURSIVE ApplyUpdates(_, _, _, _, _, _)
ApplyUpdates(u, d, updates, items, k, fail_at) ==
  IF k > Len(items) THEN Returned(u, d)
  ELSE LET r == update_user_profile(u, d, items[k], updates[items[k]], k # fail_at)
       IN IF r.raised \in {"", "ValueError"}
            THEN ApplyUpdates(r.user, r.db, updates, items, k + 1, fail_at)
            ELSE r

\* the prompt is offered whether or not updates were extracted
handle_profile_updates_always_prompting(u, d, message, fail_at) ==
  LET updates == parse_profile_update(message)
      items == Items(updates)
      r == ApplyUpdates(u, d, updates, items, 1, fail_at)
  IN [user |-> r.user, db |-> r.db, raised |-> r.raised, prompt |-> r.raised = "",
      plans_updated |-> <<>>]

\* handle_profile_updates(user, message) up to its y/n prompt.  `prompt`: the
\* prompt is reached; plans_updated: the flag it returns, as an optional
\* (none while the function has not returned).
handle_profile_updates(u, d, message, fail_at) ==
  LET updates == parse_profile_update(message)
      items == Items(updates)
  IN IF items = <<>>
       THEN [user |-> u, db |-> d, raised |-> "", prompt |-> FALSE,
             plans_updated |-> <<FALSE>>]
       ELSE LET r == ApplyUpdates(u, d, updates, items, 1, fail_at)
            IN [user |-> r.user, db |-> r.db, raised |-> r.raised,
                prompt |-> r.raised = "", plans_updated |-> <<>>]

(***************************************************************************)
(* main.py chat_loop: the state of one session.                            *)
(***************************************************************************)
VARIABLES
  pc,                   \* where the session waits: "AwaitingInput", "RegenPrompt"
                        \* (the y/n prompt of handle_profile_updates),
                        \* "UpdateRegenPrompt" (the y/n prompt of /update),
                        \* "Ended" (left by --exit), "Crashed" (left by an exception)
  user,                 \* the User object of chat_loop
  db,                   \* the database
  conversation,         \* the ConversationWrapper of chat_loop
  in_chat_mode,         \* the flag of chat_loop
  chat_session_active,  \* the flag of chat_loop
  user_message,         \* the message being handled while the session is at the
                        \* prompt, or when an exception left handle_profile_updates
  plans_updated,        \* the flag handle_profile_updates returned in the last step,
                        \* as an optional
  update_plans,         \* the answer read at a y/n prompt in the last step, lowered,
                        \* as an optional
  now,                  \* the clock: the next reading of datetime.now()
  responses,            \* plan responses the model has returned so far
  n_ops,                \* free-text messages and /update commands taken so far
  model_call,           \* what the last step handed to the chat model, as an optional
  event,                \* how the last step ended
  regen,                \* plan regeneration in the last step: "none" (not offered),
                        \* "declined", "done" (plans replaced), "failed" (generator raised)
  shown,                \* the profile table the last step displayed, as an optional
  auth,                 \* the auth table: username -> password hash and user_id
  stores,               \* the rows of every user_id in the other tables, as
                        \* simple_login reads and writes them
  env,                  \* GEMINI_API_KEY as load_dotenv() finds it ("" when not set)
  main                  \* the process running main(): its position and locals

\* what simple_login, check_api_key and main own; a chat session leaves it alone
loginVars == <<auth, stores, env, main>>

\* what chat_loop owns
sessionVars == <<pc, user, db, conversation, in_chat_mode, chat_session_active,
                 user_message, plans_updated, update_plans, now, responses, n_ops,
                 model_call, event, regen, shown>>

vars == <<pc, user, db, conversation, in_chat_mode, chat_session_active, user_message,
          plans_updated, update_plans, now, responses, n_ops, model_call, event, regen,
          shown, auth, stores, env, main>>

(***************************************************************************)
(* The inputs of the session.                                              *)
(***************************************************************************)
Commands == {<<"/help">>, <<"/HELP">>, <<"/chat">>, <<"/workout">>, <<"/diet">>,
             <<"/plans">>, <<"/profile">>, <<"/update">>, <<"/load_from_memory">>,
             <<"/foo">>, <<"--exit">>}

Messages == {
  <<"hello">>,
  <<"I", "now", "weigh", "80", "kg", "and", "I", "want", "to", "build", "muscle">>,
  <<"my", "weight", "is", "5", "kg", "and", "my", "age", "is", "30">> }

Inputs == Commands \cup Messages

\* answers to a y/n prompt
Answers == {"Yes", "n"}

\* inputs to the prompts of /update ("" is Enter)
WeightInputs == {"", "90", "5"}
HeightInputs == {"", "180"}
ActivityInputs == {""}
GoalInputs == {"", "9"}
PrefInputs == {""}

\* user_message.lower() == command
IsCommand(msg, command) == Len(msg) = 1 /\ Lower(msg[1]) = command

\* user_message.startswith("/")
StartsWithSlash(msg) ==
  msg # <<>> /\ msg[1] \in {"/help", "/HELP", "/chat", "/workout", "/diet", "/plans",
                            "/profile", "/update", "/load_from_memory", "/foo"}

KnownCommands == {"--exit", "/help", "/chat", "/workout", "/diet", "/plans", "/profile",
                  "/update", "/load_from_memory"}

\* every input that is no known command reaches the last branch
IsFreeText_any_unknown(msg) == \A c \in KnownCommands : ~IsCommand(msg, c)

\* the input reaches the last branch of the loop (lines 482-518)
IsFreeText(msg) ==
  /\ \A c \in KnownCommands : ~IsCommand(msg, c)
  /\ ~StartsWithSlash(msg)

\* every answer regenerates
StartsWithY_always(answer) == TRUE

\* update_plans.startswith('y') after lower()
StartsWithY(answer) == Lower(answer) \in {"y", "yes"}

(***************************************************************************)
(* The state a session starts from: the user was registered by             *)
(* simple_login (both plans generated, save_user), an earlier session      *)
(* exchanged k turns (add_message, save_message) and ended with --exit     *)
(* (the final save_user), and simple_login now loaded the user with        *)
(* get_user.                                                               *)
(***************************************************************************)
InitProfile ==
  [name |-> "Luffy", age |-> 21, height_cm |-> 175, weight_kg |-> 75,
   activity_level |-> "Sedentary", fitness_goal |-> "Weight Loss",
   dietary_preference |-> "Non-vegetarian", blood_group |-> <<>>]

EmptyDb == [users |-> <<>>, workout_plans |-> <<>>, diet_plans |-> <<>>,
            conversation_history |-> <<>>]

RegisteredUser ==
  [user_id |-> "uuid-1", profile_data |-> InitProfile,
   workout_plan |-> <<Plan(0, WorkoutText(0))>>,
   diet_plan |-> <<Plan(1, DietText(0))>>,
   conversation_history |-> <<>>]

\* the user and database after k turns of an earlier session
RECURSIVE EarlierTurns(_)
EarlierTurns(k) ==
  IF k = 0 THEN [user |-> RegisteredUser, db |-> save_user(RegisteredUser, EmptyDb)]
  ELSE LET s == EarlierTurns(k - 1)
       IN [user |-> add_message(s.user, 2 * k, <<"hello">>, "reply"),
           db |-> save_message(s.db, 2 * k + 1, <<"hello">>, "reply")]

EarlierSession(k) ==
  LET s == EarlierTurns(k)
  IN IF k > 0 THEN save_user(s.user, s.db) ELSE s.db

\* str(uuid.uuid4()): the n-th user_id drawn
Uuids == <<"uuid-1", "uuid-2", "uuid-3", "uuid-4", "uuid-5", "uuid-6">>

\* the keys a user may type; the Gemini service accepts the first
Keys == {"good-key", "bad-key"}
ValidKeys == {"good-key"}

\* the process at the start of main(): GEMINI_API_KEY is the global of
\* fitness_agent, read when the module is imported
MainStart(run, ids, key, validated) ==
  [pc |-> "Login", run |-> run, ids |-> ids, key |-> key, attempt |-> 0, user |-> <<>>,
   username |-> "", password |-> "", event |-> "start", asked |-> FALSE,
   returned |-> <<>>, validated |-> validated]

\* the state main() is in when it calls chat_loop for the registered user:
\* the session specifications follow the user's rows in db and leave auth,
\* stores, env and main as they are here
LoggedIn ==
  /\ auth = [n \in {"luffy"} |-> AuthRow("gomu", RegisteredUser.user_id)]
  /\ stores = [id \in Range(Uuids) |-> IF id = RegisteredUser.user_id THEN db ELSE EmptyDb]
  /\ env = "good-key"
  /\ main = [MainStart(1, 1, "good-key", {}) EXCEPT
               !.pc = "ChatLoop", !.user = <<user>>, !.username = "luffy",
               !.password = "gomu", !.event = "key_present", !.returned = <<TRUE>>]

Init ==
  \E k \in {0, MaxPrior} :
    /\ db = EarlierSession(k)
    /\ user = get_user(db)[1]
    /\ conversation = setup_llm(user)
    /\ now = 2 * k + 2
    /\ pc = "AwaitingInput"
    /\ LoggedIn
    /\ in_chat_mode = FALSE
    /\ chat_session_active = FALSE
    /\ user_message = <<>>
    /\ plans_updated = <<>>
    /\ update_plans = <<>>
    /\ responses = 0
    /\ n_ops = 0
    /\ model_call = <<>>
    /\ event = "init"
    /\ regen = "none"
    /\ shown = <<>>

(***************************************************************************)
(* Steps of chat_loop.  A step runs from one input to the next.            *)
(***************************************************************************)
\* the `finally` of chat_loop: save_user(user) when turns were exchanged
Finally(u, d, save_ok) == IF chat_session_active /\ save_ok THEN save_user(u, d) ELSE d

\* an exception leaves chat_loop (there is no except clause): the `finally`
\* runs and the session is over
Raise(u, d, conv, call, ev, rg, t, r) ==
  /\ pc' = "Crashed"
  /\ user' = u
  /\ \E save_ok \in BOOLEAN : db' = Finally(u, d, save_ok)
  /\ conversation' = conv
  /\ model_call' = call
  /\ event' = ev
  /\ regen' = rg
  /\ now' = t
  /\ responses' = r
  /\ shown' = <<>>
  /\ UNCHANGED chat_session_active

\* lines 496-518 of chat_loop from conversation.predict on: the model call,
\* add_message, save_message
Respond(u, d, conv, msg, rg, t, r) ==
  \E predict_ok \in BOOLEAN, save_ok \in BOOLEAN :
    IF ~predict_ok
      THEN Raise(u, d, conv, <<ChainInput(conv, msg)>>, "predict_failed", rg, t, r)
    ELSE LET conv2 == predict(conv, msg, "reply")
             u2 == add_message(u, t, msg, "reply")
         IN IF ~save_ok
              THEN Raise(u2, d, conv2, <<ChainInput(conv, msg)>>, "save_failed", rg, t + 2, r)
              ELSE /\ pc' = "AwaitingInput"
                   /\ user' = u2
                   /\ db' = save_message(d, t + 1, msg, "reply")
                   /\ conversation' = conv2
                   /\ chat_session_active' = TRUE
                   /\ model_call' = <<ChainInput(conv, msg)>>
                   /\ event' = "replied"
                   /\ regen' = rg
                   /\ now' = t + 2
                   /\ responses' = r
                   /\ shown' = <<>>

\* a free-text message out of msgs: handle_profile_updates up to its y/n
\* prompt, or, when nothing was extracted, the whole of lines 484-518
ChatMessageIn(msgs) ==
  \E msg \in msgs :
    /\ pc = "AwaitingInput"
    /\ UNCHANGED loginVars
    /\ IsFreeText(msg)
    /\ n_ops < MaxOps
    /\ n_ops' = n_ops + 1
    /\ update_plans' = <<>>
    /\ UNCHANGED in_chat_mode
    /\ \E fail_at \in 0..Len(Items(parse_profile_update(msg))) :
         \E h \in {handle_profile_updates(user, db, msg, fail_at)} :
            /\ plans_updated' = h.plans_updated
            /\ IF h.raised # ""
                 THEN /\ Raise(h.user, h.db, conversation, <<>>, "save_failed", "none",
                               now, responses)
                      /\ user_message' = msg
               ELSE IF h.prompt
                 THEN /\ pc' = "RegenPrompt"
                      /\ user' = h.user
                      /\ db' = h.db
                      /\ user_message' = msg
                      /\ event' = "updates_applied"
                      /\ model_call' = <<>>
                      /\ regen' = "none"
                      /\ shown' = <<>>
                      /\ UNCHANGED <<conversation, chat_session_active, now, responses>>
               ELSE /\ Respond(h.user, h.db, conversation, msg, "none", now, responses)
                    /\ UNCHANGED user_message

ChatMessage == ChatMessageIn(Inputs)

\* the answer to the prompt of handle_profile_updates, then lines 486-518
RegenAnswer ==
  \E answer \in Answers, response_ok \in BOOLEAN, save_ok \in BOOLEAN :
    /\ pc = "RegenPrompt"
    /\ UNCHANGED loginVars
    /\ user_message' = <<>>
    /\ update_plans' = <<Lower(answer)>>
    /\ UNCHANGED <<in_chat_mode, n_ops>>
    /\ IF StartsWithY(answer)
         THEN LET r == update_user_plans(user, db,
                         IF response_ok THEN <<responses + 1>> ELSE <<>>, now, save_ok)
              IN /\ plans_updated' = IF r.raised = "" THEN <<TRUE>> ELSE <<>>
                 /\ IF r.raised = "generate"
                      THEN Raise(r.user, r.db, conversation, <<>>, "regen_failed",
                                 "failed", now, responses)
                    ELSE IF r.raised # ""
                      THEN Raise(r.user, r.db, conversation, <<>>, "save_failed", "done",
                                 now + 2, responses + 1)
                    ELSE Respond(r.user, r.db, setup_llm(r.user), user_message, "done",
                                 now + 2, responses + 1)
         ELSE /\ plans_updated' = <<FALSE>>
              /\ Respond(user, db, conversation, user_message, "declined", now, responses)

\* any number typed is taken
InteractiveNumber_unchecked(input, lo, hi) ==
  IF input # "" /\ input \in NumWords THEN <<NumVal(input)>> ELSE <<>>

\* float(input) in [lo, hi] at a prompt of /update; Enter keeps the value
InteractiveNumber(input, lo, hi) ==
  IF input # "" /\ input \in NumWords /\ lo <= NumVal(input) /\ NumVal(input) <= hi
    THEN <<NumVal(input)>>
    ELSE <<>>

\* the while loop of a numeric prompt ends on Enter or on a value in range
EndsNumberPrompt(input, lo, hi) == input = "" \/ InteractiveNumber(input, lo, hi) # <<>>

\* the number typed at a choice prompt picks an option; anything else keeps the value
InteractiveChoice(input, options) ==
  IF input # "" /\ input \in NumWords /\ 1 <= NumVal(input) /\ NumVal(input) <= Len(options)
    THEN <<options[NumVal(input)]>>
    ELSE <<>>

\* the updates update_user_profile_interactive makes, in its order
InteractiveUpdates(weight_input, height_input, activity_input, goal_input, pref_input) ==
  LET got == [weight_kg |-> InteractiveNumber(weight_input, MinWeight, MaxWeight),
              height_cm |-> InteractiveNumber(height_input, MinHeight, MaxHeight),
              age |-> <<>>,
              activity_level |-> InteractiveChoice(activity_input, ACTIVITY_LEVELS),
              fitness_goal |-> InteractiveChoice(goal_input, FITNESS_GOALS),
              dietary_preference |-> InteractiveChoice(pref_input, DIETARY_PREFERENCES)]
  IN [f \in {g \in Range(FieldOrder) : got[g] # <<>>} |-> got[f][1]]

\* /update: update_user_profile_interactive up to its y/n prompt
UpdateCommand ==
  \E msg \in Inputs, weight_input \in WeightInputs, height_input \in HeightInputs,
     activity_input \in ActivityInputs, goal_input \in GoalInputs,
     pref_input \in PrefInputs :
    /\ pc = "AwaitingInput"
    /\ UNCHANGED loginVars
    /\ IsCommand(msg, "/update")
    /\ n_ops < MaxOps
    /\ EndsNumberPrompt(weight_input, MinWeight, MaxWeight)
    /\ EndsNumberPrompt(height_input, MinHeight, MaxHeight)
    /\ n_ops' = n_ops + 1
    /\ in_chat_mode' = FALSE
    /\ plans_updated' = <<>>
    /\ update_plans' = <<>>
    /\ UNCHANGED user_message
    /\ LET updates == InteractiveUpdates(weight_input, height_input, activity_input,
                                         goal_input, pref_input)
           items == Items(updates)
       IN \E fail_at \in 0..Len(items) :
            LET r == ApplyUpdates(user, db, updates, items, 1, fail_at)
            IN IF r.raised # ""
                 THEN Raise(r.user, r.db, conversation, <<>>, "save_failed", "none", now,
                            responses)
                 ELSE /\ pc' = "UpdateRegenPrompt"
                      /\ user' = r.user
                      /\ db' = r.db
                      /\ event' = "update_applied"
                      /\ model_call' = <<>>
                      /\ regen' = "none"
                      /\ shown' = <<>>
                      /\ UNCHANGED <<conversation, chat_session_active, now, responses>>

\* the answer to the prompt of update_user_profile_interactive; chat_loop
\* then continues with the next input
UpdateRegenAnswer ==
  \E answer \in Answers, response_ok \in BOOLEAN, save_ok \in BOOLEAN :
    /\ pc = "UpdateRegenPrompt"
    /\ UNCHANGED loginVars
    /\ plans_updated' = <<>>
    /\ update_plans' = <<Lower(answer)>>
    /\ UNCHANGED <<in_chat_mode, n_ops, user_message>>
    /\ IF StartsWithY(answer)
         THEN LET r == update_user_plans(user, db,
                         IF response_ok THEN <<responses + 1>> ELSE <<>>, now, save_ok)
              IN IF r.raised = "generate"
                   THEN Raise(r.user, r.db, conversation, <<>>, "regen_failed", "failed",
                              now, responses)
                 ELSE IF r.raised # ""
                   THEN Raise(r.user, r.db, conversation, <<>>, "save_failed", "done",
                              now + 2, responses + 1)
                 ELSE /\ pc' = "AwaitingInput"
                      /\ user' = r.user
                      /\ db' = r.db
                      /\ event' = "update_done"
                      /\ regen' = "done"
                      /\ now' = now + 2
                      /\ responses' = responses + 1
                      /\ model_call' = <<>>
                      /\ shown' = <<>>
                      /\ UNCHANGED <<conversation, chat_session_active>>
         ELSE /\ pc' = "AwaitingInput"
              /\ event' = "update_done"
              /\ regen' = "declined"
              /\ model_call' = <<>>
              /\ shown' = <<>>
              /\ UNCHANGED <<user, db, conversation, chat_session_active, now, responses>>

\* a command that only displays: the chat mode flag and what was displayed
Display(command, chat_mode, ev, table) ==
  \E msg \in Inputs :
    /\ pc = "AwaitingInput"
    /\ UNCHANGED loginVars
    /\ IsCommand(msg, command)
    /\ in_chat_mode' = chat_mode
    /\ event' = ev
    /\ shown' = table
    /\ model_call' = <<>>
    /\ regen' = "none"
    /\ plans_updated' = <<>>
    /\ update_plans' = <<>>
    /\ UNCHANGED <<pc, user, db, conversation, chat_session_active, user_message, now,
                   responses, n_ops>>

Help == Display("/help", in_chat_mode, "command", <<>>)

ChatMode == Display("/chat", TRUE, "command", <<>>)

ShowWorkout == Display("/workout", FALSE, "command", <<>>)

ShowDiet == Display("/diet", FALSE, "command", <<>>)

ShowPlans == Display("/plans", FALSE, "command", <<>>)

\* display_user_profile: the rows of the table that show weight, height and BMI
display_user_profile(u) ==
  [weight_kg |-> u.profile_data.weight_kg, height_cm |-> u.profile_data.height_cm,
   bmi |-> bmi(u.profile_data), bmi_category |-> bmi_category(u.profile_data)]

ShowProfile == Display("/profile", FALSE, "profile_shown", <<display_user_profile(user)>>)

LoadFromMemory == Display("/load_from_memory", FALSE, "command", <<>>)

\* an input that starts with "/" and is no command
UnknownCommand ==
  \E msg \in Inputs :
    /\ pc = "AwaitingInput"
    /\ UNCHANGED loginVars
    /\ \A c \in KnownCommands : ~IsCommand(msg, c)
    /\ StartsWithSlash(msg)
    /\ in_chat_mode' = FALSE
    /\ event' = "command"
    /\ shown' = <<>>
    /\ model_call' = <<>>
    /\ regen' = "none"
    /\ plans_updated' = <<>>
    /\ update_plans' = <<>>
    /\ UNCHANGED <<pc, user, db, conversation, chat_session_active, user_message, now,
                   responses, n_ops>>

\* --exit: break, then the `finally`
Exit ==
  \E msg \in Inputs, save_ok \in BOOLEAN :
    /\ pc = "AwaitingInput"
    /\ UNCHANGED loginVars
    /\ IsCommand(msg, "--exit")
    /\ pc' = IF chat_session_active /\ ~save_ok THEN "Crashed" ELSE "Ended"
    /\ db' = Finally(user, db, save_ok)
    /\ event' = IF chat_session_active /\ ~save_ok THEN "save_failed" ELSE "exit"
    /\ shown' = <<>>
    /\ model_call' = <<>>
    /\ regen' = "none"
    /\ plans_updated' = <<>>
    /\ update_plans' = <<>>
    /\ UNCHANGED <<user, conversation, in_chat_mode, chat_session_active, user_message,
                   now, responses, n_ops>>

Next ==
  \/ ChatMessage
  \/ RegenAnswer
  \/ UpdateCommand
  \/ UpdateRegenAnswer
  \/ Help
  \/ ChatMode
  \/ ShowWorkout
  \/ ShowDiet
  \/ ShowPlans
  \/ ShowProfile
  \/ LoadFromMemory
  \/ UnknownCommand
  \/ Exit

Spec == Init /\ [][Next]_vars

(***************************************************************************)
(* Every profile onboarding accepts: a session of a user registered with   *)
(* any height and weight of the accepted ranges, in which /profile reads   *)
(* the BMI.                                                                *)
(***************************************************************************)
\* onboard_new_user with a height and a weight in range, then simple_login
InitBmi ==
  \E height \in MinHeight..MaxHeight, weight \in MinWeight..MaxWeight :
    /\ user = [RegisteredUser EXCEPT !.profile_data.height_cm = height,
                                     !.profile_data.weight_kg = weight]
    /\ db = save_user(user, EmptyDb)
    /\ conversation = setup_llm(user)
    /\ now = 2
    /\ pc = "AwaitingInput"
    /\ LoggedIn
    /\ in_chat_mode = FALSE
    /\ chat_session_active = FALSE
    /\ user_message = <<>>
    /\ plans_updated = <<>>
    /\ update_plans = <<>>
    /\ responses = 0
    /\ n_ops = 0
    /\ model_call = <<>>
    /\ event = "init"
    /\ regen = "none"
    /\ shown = <<>>

SpecBmi == InitBmi /\ [][ShowProfile]_vars

(***************************************************************************)
(* The update loop of handle_profile_updates (lines 317-323) run on        *)
(* updates dicts that may hold a name that is no attribute of the profile. *)
(***************************************************************************)
\* names for which hasattr(user.profile_data, field) is false
UnknownFields == {"target_weight"}

BatchFields == {"weight_kg", "age"} \cup UnknownFields

\* the values of the dicts
BatchUpdates == {[weight_kg |-> 80, age |-> 30, target_weight |-> 70],
                 [weight_kg |-> 90, age |-> 40, target_weight |-> 65]}

\* the keys of a dict in insertion order: no key twice
BatchItems ==
  {items \in UNION {[1..n -> BatchFields] : n \in 1..Cardinality(BatchFields)} :
     \A i, j \in DOMAIN items : items[i] = items[j] => i = j}

\* the loop on one dict; a ValueError is reported and the loop goes on, a
\* failed save leaves the loop and the session
ApplyBatch ==
  \E updates \in BatchUpdates, items \in BatchItems :
    \E fail_at \in 0..Len(items) :
      /\ pc = "AwaitingInput"
      /\ UNCHANGED loginVars
      /\ n_ops < MaxOps
      /\ n_ops' = n_ops + 1
      /\ plans_updated' = <<>>
      /\ update_plans' = <<>>
      /\ UNCHANGED <<in_chat_mode, user_message>>
      /\ LET r == ApplyUpdates(user, db, updates, items, 1, fail_at)
         IN IF r.raised # ""
              THEN Raise(r.user, r.db, conversation, <<>>, "save_failed", "none", now,
                         responses)
              ELSE /\ pc' = "AwaitingInput"
                   /\ user' = r.user
                   /\ db' = r.db
                   /\ event' = IF \E k \in DOMAIN items : items[k] \in UnknownFields
                                THEN "unknown_field_reported"
                                ELSE "updates_applied"
                   /\ model_call' = <<>>
                   /\ regen' = "none"
                   /\ shown' = <<>>
                   /\ UNCHANGED <<conversation, chat_session_active, now, responses>>

SpecBatch == Init /\ [][ApplyBatch]_vars

(***************************************************************************)
(* parse_profile_update on messages that match several templates of one    *)
(* field, that name a diet, or that report a weight lost or gained, read   *)
(* in sessions of users of any stored weight.                              *)
(***************************************************************************)
ParseMessages == {
  <<"my", "weight", "is", "500", "kg", "and", "i", "weigh", "80", "kg">>,
  <<"i", "weigh", "80", "kg", "and", "my", "weight", "is", "90", "kg">>,
  <<"my", "age", "is", "9", "and", "i", "turned", "30">>,
  <<"my", "activity", "level", "is", "low", "but", "i", "am", "moderately", "active">>,
  <<"my", "activity", "level", "is", "active">>,
  <<"I", "am", "non-vegetarian">>,
  <<"I've", "lost", "40", "kg">>,
  <<"I've", "gained", "130", "kg">>,
  <<"I've", "lost", "5", "kg">> }

\* weights onboard_new_user accepts: the ends of the range, the default
\* profile's, and the numbers the messages name
StoredWeights == {MinWeight, 40, 75, 80, 130, MaxWeight}

\* onboard_new_user with a weight in range, then simple_login
InitParse ==
  \E weight \in StoredWeights :
    /\ user = [RegisteredUser EXCEPT !.profile_data.weight_kg = weight]
    /\ db = save_user(user, EmptyDb)
    /\ conversation = setup_llm(user)
    /\ now = 2
    /\ pc = "AwaitingInput"
    /\ LoggedIn
    /\ in_chat_mode = FALSE
    /\ chat_session_active = FALSE
    /\ user_message = <<>>
    /\ plans_updated = <<>>
    /\ update_plans = <<>>
    /\ responses = 0
    /\ n_ops = 0
    /\ model_call = <<>>
    /\ event = "init"
    /\ regen = "none"
    /\ shown = <<>>

ParseMessage == ChatMessageIn(ParseMessages)

NextParse == ParseMessage \/ RegenAnswer

SpecParse == InitParse /\ [][NextParse]_vars

(***************************************************************************)
(* main.py main and simple_login, agent/tools.py check_api_key: the        *)
(* application started up to MaxRuns times on one database and one .env    *)
(* file.  A step runs from one read of the console to the next.            *)
(***************************************************************************)
\* times the application is started
MaxRuns == 3

Usernames == {"luffy", "zoro"}
Passwords == {"gomu", "santoryu"}

\* onboard_new_user: a User with the n-th fresh user_id and no plans
onboard_new_user(n) ==
  [user_id |-> Uuids[n], profile_data |-> InitProfile, workout_plan |-> <<>>,
   diet_plan |-> <<>>, conversation_history |-> <<>>]

\* the global GEMINI_API_KEY after the check at the head of
\* generate_workout_diet_plans and of setup_llm: reloaded when it was empty
ReloadedKey(key) == IF key # "" THEN key ELSE env

Outcome(next_pc, ev, a, st, ids, key, u) ==
  [pc |-> next_pc, event |-> ev, auth |-> a, stores |-> st, ids |-> ids, key |-> key,
   user |-> u]

\* simple_login from the check of the password on (lines 85-131)
LoginOutcome(username, password, register_ok, response_ok, save_ok) ==
  LET user_id == authenticate_user(auth, username, password) IN
  IF user_id # <<>>
    THEN LET u == get_user(stores[user_id[1]])
         IN IF u # <<>>
              THEN Outcome("CheckApiKey", "welcome_back", auth, stores, main.ids, main.key, u)
              ELSE Outcome("Ended", "profile_not_found", auth, stores, main.ids, main.key,
                           <<>>)
  ELSE
    LET new_user == onboard_new_user(main.ids + 1)
        r == register_user(auth, username, password, new_user, register_ok)
        key == ReloadedKey(main.key)
        with_plans == [new_user EXCEPT !.workout_plan = <<Plan(0, WorkoutText(0))>>,
                                       !.diet_plan = <<Plan(1, DietText(0))>>]
    IN IF ~r.success
         THEN Outcome("Ended", "registration_failed", r.auth, stores, main.ids + 1,
                      main.key, <<>>)
       ELSE IF key = ""
         THEN Outcome("Crashed", "key_missing", r.auth, stores, main.ids + 1, key, <<>>)
       ELSE IF key \notin ValidKeys \/ ~response_ok
         THEN Outcome("Crashed", "generate_failed", r.auth, stores, main.ids + 1, key, <<>>)
       ELSE IF ~save_ok
         THEN Outcome("Crashed", "save_failed", r.auth, stores, main.ids + 1, key, <<>>)
       ELSE Outcome("CheckApiKey", "registered", r.auth,
                    [stores EXCEPT ![new_user.user_id] = save_user(with_plans, @)],
                    main.ids + 1, key, <<with_plans>>)

\* simple_login: returns a user (main goes on to check_api_key), returns None
\* (main ends) or is left by an exception
simple_login ==
  \E username \in Usernames \cup {""}, password \in Passwords \cup {""},
     register_ok \in BOOLEAN, response_ok \in BOOLEAN, save_ok \in BOOLEAN :
    /\ main.pc = "Login"
    /\ main.ids < Len(Uuids)
    /\ UNCHANGED <<sessionVars, env>>
    /\ IF username = "" \/ password = ""
         THEN /\ main' = [main EXCEPT !.pc = "Ended", !.event = "empty_credentials",
                                      !.username = username, !.password = password]
              /\ UNCHANGED <<auth, stores>>
         ELSE \E o \in {LoginOutcome(username, password, register_ok, response_ok,
                                      save_ok)} :
                /\ auth' = o.auth
                /\ stores' = o.stores
                /\ main' = [main EXCEPT !.pc = o.pc, !.event = o.event, !.ids = o.ids,
                                        !.key = o.key, !.user = o.user,
                                        !.username = username, !.password = password]

\* check_api_key up to its first prompt: with a key in the environment it
\* returns True at once (line 287)
check_api_key ==
  /\ main.pc = "CheckApiKey"
  /\ UNCHANGED <<sessionVars, auth, stores, env>>
  /\ IF env # ""
       THEN main' = [main EXCEPT !.pc = "ChatLoop", !.event = "key_present",
                                 !.returned = <<TRUE>>]
       ELSE main' = [main EXCEPT !.pc = "KeyPrompt", !.event = "key_asked",
                                 !.asked = TRUE, !.attempt = 0]

\* the end of an attempt that did not give a validated key: the next
\* attempt, or False after the third
AttemptFailed(ev) ==
  IF main.attempt < 2
    THEN main' = [main EXCEPT !.attempt = @ + 1, !.event = ev]
    ELSE main' = [main EXCEPT !.pc = "Ended", !.event = ev, !.returned = <<FALSE>>]

\* one attempt of check_api_key (lines 203-285): the key read is written to
\* .env and loaded, then validated by a call to the service
EnterApiKey ==
  \E api_key \in Keys \cup {""}, write_ok \in BOOLEAN, call_ok \in BOOLEAN :
    /\ main.pc = "KeyPrompt"
    /\ UNCHANGED <<sessionVars, auth, stores>>
    /\ IF api_key = ""
         THEN AttemptFailed("key_empty") /\ UNCHANGED env
       ELSE IF ~write_ok
         THEN AttemptFailed("key_not_saved") /\ UNCHANGED env
       ELSE /\ env' = api_key
            /\ IF api_key \in ValidKeys /\ call_ok
                 THEN main' = [main EXCEPT !.pc = "ChatLoop", !.event = "key_validated",
                                           !.returned = <<TRUE>>,
                                           !.validated = @ \cup {api_key}]
                 ELSE AttemptFailed("key_invalid")

\* chat_loop(user): the session, to its end
chat_loop ==
  /\ main.pc = "ChatLoop"
  /\ UNCHANGED <<sessionVars, auth, stores, env>>
  /\ main' = [main EXCEPT !.pc = "Ended", !.event = "session_over",
                          !.key = ReloadedKey(main.key)]

\* the application is started again
StartMain ==
  /\ main.pc \in {"Ended", "Crashed"}
  /\ main.run < MaxRuns
  /\ UNCHANGED <<sessionVars, auth, stores, env>>
  /\ main' = MainStart(main.run + 1, main.ids, env, main.validated)

\* a fresh database, or one in which "luffy" registered in an earlier run
\* (whose key came from the environment of that process); the .env file
\* holds no key or a working one
InitLogin ==
  /\ \E registered \in BOOLEAN :
       IF registered
         THEN /\ auth = [n \in {"luffy"} |-> AuthRow("gomu", RegisteredUser.user_id)]
              /\ stores = [id \in Range(Uuids) |->
                             IF id = RegisteredUser.user_id
                               THEN save_user(RegisteredUser, EmptyDb) ELSE EmptyDb]
              /\ \E key \in {"", "good-key"} : env = key /\ main = MainStart(1, 1, key, {})
         ELSE /\ auth = NoRows
              /\ stores = [id \in Range(Uuids) |-> EmptyDb]
              /\ \E key \in {"", "good-key"} : env = key /\ main = MainStart(1, 0, key, {})
  /\ pc = "Idle"
  /\ user = <<>>
  /\ db = EmptyDb
  /\ conversation = <<>>
  /\ in_chat_mode = FALSE
  /\ chat_session_active = FALSE
  /\ user_message = <<>>
  /\ plans_updated = <<>>
  /\ update_plans = <<>>
  /\ now = 0
  /\ responses = 0
  /\ n_ops = 0
  /\ model_call = <<>>
  /\ event = "init"
  /\ regen = "none"
  /\ shown = <<>>

NextLogin ==
  \/ simple_login
  \/ check_api_key
  \/ EnterApiKey
  \/ chat_loop
  \/ StartMain

SpecLogin == InitLogin /\ [][NextLogin]_vars

(***************************************************************************)
(* Claims.                                                                 *)
(***************************************************************************)
\* the profile part of a system prompt
ProfileContext(prompt) ==
  [f \in {"age", "height_cm", "weight_kg", "bmi", "bmi_category", "activity_level",
          "fitness_goal", "dietary_preference"} |-> prompt[f]]

\* C1: when updates extracted from a message were applied (the regeneration
\* prompt was reached, whatever the answer), the system prompt handed to the
\* model for that message holds the profile as updated.
C1_ContextHoldsUpdatedProfile ==
  (model_call # <<>> /\ regen \in {"declined", "done"})
    => ProfileContext(model_call[1].system_prompt) = ProfileContext(SystemPrompt(user))

\* the last step ended with save_user(user) as its last write to the database
JustSaved ==
  \/ event = "updates_applied"
  \/ event = "update_done" /\ regen = "done"
  \/ event = "exit" /\ chat_session_active

\* C2: right after save_user(user), get_user gives back the raw profile
\* attributes and the conversation history of the saved user: same turns, same
\* order, same length.
C2_SaveThenLoadRoundTrip ==
  JustSaved =>
    /\ get_user(db) # <<>>
    /\ get_user(db)[1].profile_data = user.profile_data
    /\ get_user(db)[1].conversation_history = user.conversation_history

\* what get_user loads of the profile and the plans (the history rows have no
\* part in it)
StoredUser(d) == get_user([d EXCEPT !.conversation_history = <<>>])

\* b hundredths is weight / (height / 100)^2 rounded to two decimals
IsRoundedBmi(b, weight_kg, height_cm) ==
  LET err == b * height_cm * height_cm - weight_kg * 1000000
  IN 2 * err <= height_cm * height_cm /\ -2 * err <= height_cm * height_cm

IsCategoryOf(c, b) ==
  /\ c = "Underweight" <=> b < 1850
  /\ c = "Normal" <=> (1850 <= b /\ b < 2500)
  /\ c = "Overweight" <=> (2500 <= b /\ b < 3000)
  /\ c = "Obese" <=> b >= 3000

\* C3: whatever updates were made by messages and by /update, the BMI and the
\* category that display_user_profile reads are those of the current height
\* and weight.
C3_BmiReadIsCurrent ==
  shown # <<>> =>
    /\ IsRoundedBmi(shown[1].bmi, user.profile_data.weight_kg, user.profile_data.height_cm)
    /\ IsCategoryOf(shown[1].bmi_category, shown[1].bmi)

C3_Witness ==
  /\ shown # <<>>
  /\ user.profile_data.weight_kg # InitProfile.weight_kg
  /\ user.profile_data.height_cm # InitProfile.height_cm

\* C4: the chat history handed to the model never holds more than the last
\* HistoryWindow turns (two messages a turn).
C4_HistoryWithinWindow ==
  model_call # <<>> => Len(model_call[1].chat_history) <= 2 * HistoryWindow

\* C5: when the plan generator raises after the user opted into regeneration,
\* the session goes back to awaiting input.
C5_RegenFailureRecovered == regen = "failed" => pc = "AwaitingInput"

\* C6: a step in which the plan generator raises leaves both plans as they
\* were, text and last_updated, in memory and in storage.
C6_FailedRegenKeepsPlans ==
  [][regen' = "failed" =>
       /\ user'.workout_plan = user.workout_plan
       /\ user'.diet_plan = user.diet_plan
       /\ db'.workout_plans = db.workout_plans
       /\ db'.diet_plans = db.diet_plans
       /\ StoredUser(db')[1].workout_plan = StoredUser(db)[1].workout_plan
       /\ StoredUser(db')[1].diet_plan = StoredUser(db)[1].diet_plan]_vars

C6_Witness ==
  /\ regen = "failed"
  /\ chat_session_active
  /\ user.workout_plan = <<Plan(0, WorkoutText(0))>>
  /\ db.diet_plans = <<PlanRow(Plan(1, DietText(0)))>>

\* both plans of u come from the n-th plan response
PlansFrom(u, n) ==
  /\ u.workout_plan # <<>> /\ u.workout_plan[1].plan_text = WorkoutText(n)
  /\ u.diet_plan # <<>> /\ u.diet_plan[1].plan_text = DietText(n)

\* C7: in memory and in storage the two plans always come from the same plan
\* response, and once a regeneration has completed both are the new ones.
C7_BothPlansReplaced ==
  /\ \E n \in 0..responses : PlansFrom(user, n)
  /\ \E n \in 0..responses : StoredUser(db) # <<>> /\ PlansFrom(StoredUser(db)[1], n)
  /\ regen = "done" => PlansFrom(user, responses)
  /\ (regen = "done" /\ event # "save_failed") => PlansFrom(StoredUser(db)[1], responses)

C7_Witness ==
  /\ regen = "done"
  /\ pc = "AwaitingInput"
  /\ PlansFrom(user, 1)
  /\ PlansFrom(StoredUser(db)[1], 1)

\* C8: after a regeneration, by the prompt after a message or by /update, no
\* model call is made with a system prompt that holds other plan texts than
\* the user's current ones.
C8_ContextHoldsCurrentPlans ==
  model_call # <<>> =>
    /\ model_call[1].system_prompt.workout_plan =
         [i \in DOMAIN user.workout_plan |-> user.workout_plan[i].plan_text]
    /\ model_call[1].system_prompt.diet_plan =
         [i \in DOMAIN user.diet_plan |-> user.diet_plan[i].plan_text]

\* C9: when conversation.predict raises, the session goes back to awaiting
\* input.
C9_PredictFailureRecovered == event = "predict_failed" => pc = "AwaitingInput"

C10Message == <<"my", "weight", "is", "5", "kg", "and", "my", "age", "is", "30">>

\* C10: the message with weight 5 kg (out of range) and age 30 (valid) updates
\* the age, in memory and in storage, and leaves the weight and every other
\* attribute as they were.
C10_ValidAppliedInvalidDropped ==
  [][(pc = "AwaitingInput" /\ pc' = "RegenPrompt" /\ user_message' = C10Message) =>
       /\ user'.profile_data = [user.profile_data EXCEPT !.age = 30]
       /\ StoredUser(db')[1].profile_data = [user.profile_data EXCEPT !.age = 30]]_vars

C10_Witness ==
  /\ pc = "RegenPrompt"
  /\ user_message = C10Message
  /\ user.profile_data.age = 30
  /\ user.profile_data.weight_kg = 75
  /\ StoredUser(db)[1].profile_data.age = 30

\* messages from which nothing is extracted: no attribute is mentioned, or the
\* value mentioned is out of range
C11Messages == {<<"hello">>, <<"I've", "lost", "5", "kg">>,
                <<"my", "weight", "is", "500", "kg">>}

\* C11: whenever the session awaits input, handle_profile_updates on a message
\* with no extracted update returns the user as it is, writes nothing to the
\* database, reaches no regeneration prompt and returns False.
C11_NoUpdateNoEffect ==
  pc = "AwaitingInput" =>
    \A msg \in C11Messages \cup Messages :
      Items(parse_profile_update(msg)) = <<>> =>
        handle_profile_updates(user, db, msg, 0) =
          [user |-> user, db |-> db, raised |-> "", prompt |-> FALSE,
           plans_updated |-> <<FALSE>>]

C11_Witness ==
  /\ event = "replied"
  /\ plans_updated = <<FALSE>>
  /\ update_plans = <<>>
  /\ user.profile_data # InitProfile
  /\ user.conversation_history # <<>>

\* C12: the flag handle_profile_updates returns is true exactly when updates
\* were applied by that call (the regeneration prompt was reached and
\* answered), whatever the answer.
C12_FlagMeansUpdateApplied ==
  plans_updated # <<>> => (plans_updated[1] <=> update_plans # <<>>)

\* the profile p with the first k updates of items applied
AppliedUpTo(p, updates, items, k) ==
  [f \in DOMAIN p |-> IF \E i \in 1..k : items[i] = f THEN updates[f] ELSE p[f]]

\* the step handled a message with updates: it reached the prompt or an
\* exception left handle_profile_updates
HandledUpdates == pc = "AwaitingInput" /\ user_message' # <<>>

\* C13: when handle_profile_updates finishes or fails on a message, the stored
\* profile holds all the accepted updates of the message or none of them.
C13_BatchAtomicInStorage ==
  [][HandledUpdates =>
       \A updates \in {parse_profile_update(user_message')} :
         \A before \in {StoredUser(db)[1].profile_data},
            after \in {StoredUser(db')[1].profile_data} :
           \/ after = before
           \/ after = AppliedUpTo(before, updates, Items(updates),
                                  Len(Items(updates)))]_vars

\* C14: while the session goes on (no save has failed), and so at both
\* regeneration prompts and at every model call, the stored profile attributes
\* are those of the profile in memory.
C14_StoredProfileIsCurrent ==
  pc # "Crashed" =>
    /\ StoredUser(db) # <<>>
    /\ StoredUser(db)[1].profile_data = user.profile_data

C14_Witness ==
  /\ pc = "UpdateRegenPrompt"
  /\ user.profile_data.weight_kg = 90
  /\ user.profile_data.height_cm = 180
  /\ StoredUser(db)[1].profile_data.height_cm = 180

\* C15: a step that handles a message with updates either applies and stores
\* all of them and reaches the prompt, or a failed save_user leaves
\* handle_profile_updates and chat_loop as an exception: no flag is returned,
\* no prompt is reached, memory holds the updates up to and including the one
\* whose save failed, storage those before it (or, when the finally block
\* saves, the same as memory).
C15_SaveFailurePropagates ==
  [][HandledUpdates =>
       \A updates \in {parse_profile_update(user_message')} :
       \A items \in {Items(updates)}, before \in {user.profile_data},
          mem \in {user'.profile_data}, stored \in {StoredUser(db')[1].profile_data} :
          \/ /\ pc' = "RegenPrompt"
             /\ mem = AppliedUpTo(before, updates, items, Len(items))
             /\ stored = mem
          \/ /\ pc' = "Crashed"
             /\ event' = "save_failed"
             /\ plans_updated' = <<>>
             /\ update_plans' = <<>>
             /\ \E k \in 1..Len(items) :
                  /\ mem = AppliedUpTo(before, updates, items, k)
                  /\ stored \in {AppliedUpTo(before, updates, items, k - 1), mem}]_vars

C15_Witness ==
  /\ pc = "Crashed"
  /\ event = "save_failed"
  /\ user_message # <<>>
  /\ user.profile_data.weight_kg = 80
  /\ StoredUser(db)[1].profile_data.weight_kg = 75

\* the profile attributes are in range and the choices are listed options
ValidProfile(p) ==
  /\ p.age \in MinAge..MaxAge
  /\ p.height_cm \in MinHeight..MaxHeight
  /\ p.weight_kg \in MinWeight..MaxWeight
  /\ p.activity_level \in Range(ACTIVITY_LEVELS)
  /\ p.fitness_goal \in Range(FITNESS_GOALS)
  /\ p.dietary_preference \in Range(DIETARY_PREFERENCES)

\* C16: in every state the profile in memory and the stored profile satisfy
\* the ranges and the enumerations.
C16_ProfileAlwaysValid ==
  /\ ValidProfile(user.profile_data)
  /\ StoredUser(db) # <<>> /\ ValidProfile(StoredUser(db)[1].profile_data)

C16_Witness ==
  /\ n_ops = 2
  /\ user.profile_data.age = 30
  /\ user.profile_data.weight_kg = 90
  /\ user.profile_data.fitness_goal = "Weight Loss"

\* the step called the plan generator: a response was returned or it raised
GeneratorInvoked == responses' # responses \/ regen' = "failed"

\* the plans in memory and in storage are the same after the step
PlansUnchanged ==
  /\ user'.workout_plan = user.workout_plan
  /\ user'.diet_plan = user.diet_plan
  /\ StoredUser(db')[1].workout_plan = StoredUser(db)[1].workout_plan
  /\ StoredUser(db')[1].diet_plan = StoredUser(db)[1].diet_plan

\* C17: the plan generator is called only in a step that read an answer
\* starting with "y" at a regeneration prompt; a step that changes the profile
\* and reaches a prompt calls no generator and leaves the plans, and so does a
\* step that read any other answer.
C17_RegenerationOnlyOnYes ==
  [][/\ GeneratorInvoked =>
          /\ pc \in {"RegenPrompt", "UpdateRegenPrompt"}
          /\ update_plans' \in {<<"y">>, <<"yes">>}
     /\ pc' \in {"RegenPrompt", "UpdateRegenPrompt"} => ~GeneratorInvoked /\ PlansUnchanged
     /\ (update_plans' # <<>> /\ update_plans' \notin {<<"y">>, <<"yes">>}) =>
          ~GeneratorInvoked /\ PlansUnchanged]_vars

C17_Witness ==
  /\ update_plans = <<"n">>
  /\ regen = "declined"
  /\ user.profile_data # InitProfile
  /\ responses = 0
  /\ user.workout_plan = <<Plan(0, WorkoutText(0))>>

\* s is a prefix of t
IsPrefix(s, t) == Len(s) <= Len(t) /\ SubSeq(t, 1, Len(s)) = s

\* C18: every step leaves the turns in memory and the stored rows in place
\* and only adds after them.
C18_HistoryAppendOnly ==
  [][/\ IsPrefix(user.conversation_history, user'.conversation_history)
     /\ IsPrefix(db.conversation_history, db'.conversation_history)]_vars

C18_Witness ==
  /\ event = "replied"
  /\ n_ops = 2
  /\ Len(user.conversation_history) = 2
  /\ Len(db.conversation_history) = 2

\* C19: for every height in [100, 250] and weight in [30, 300] the BMI read is
\* the weight over the squared height in metres rounded to two decimals, and
\* the category is that of the rounded value: below 18.5 Underweight, from
\* 18.5 Normal, from 25 Overweight, from 30 Obese.
C19_BmiRoundedCategoryExact ==
  shown # <<>> =>
    /\ shown[1].height_cm \in MinHeight..MaxHeight
    /\ shown[1].weight_kg \in MinWeight..MaxWeight
    /\ IsRoundedBmi(shown[1].bmi, shown[1].weight_kg, shown[1].height_cm)
    /\ shown[1].bmi_category =
         IF shown[1].bmi < 1850 THEN "Underweight"
         ELSE IF shown[1].bmi < 2500 THEN "Normal"
         ELSE IF shown[1].bmi < 3000 THEN "Overweight"
         ELSE "Obese"
    /\ shown[1].bmi = 1850 => shown[1].bmi_category = "Normal"
    /\ shown[1].bmi = 2500 => shown[1].bmi_category = "Overweight"
    /\ shown[1].bmi = 3000 => shown[1].bmi_category = "Obese"

C19_Witness ==
  /\ shown # <<>>
  /\ shown[1].height_cm = 160
  /\ shown[1].weight_kg = 64
  /\ shown[1].bmi = 2500
  /\ shown[1].bmi_category = "Overweight"

\* C20: whenever the session awaits input, update_user_profile with a name
\* that is no profile attribute raises ValueError, leaves the user as it is
\* and saves nothing; the update loop on a dict with such a name applies and
\* stores every other update of the dict and ends without an exception.
C20_UnknownFieldSkipped ==
  pc = "AwaitingInput" =>
    /\ \A field \in UnknownFields, save_ok \in BOOLEAN :
         update_user_profile(user, db, field, 70, save_ok) =
           [user |-> user, db |-> db, raised |-> "ValueError"]
    /\ \A updates \in BatchUpdates, items \in BatchItems :
         \A r \in {ApplyUpdates(user, db, updates, items, 1, 0)} :
           \A known \in {[f \in DOMAIN user.profile_data |->
                            IF \E k \in DOMAIN items : items[k] = f
                              THEN updates[f] ELSE user.profile_data[f]]} :
             /\ r.raised = ""
             /\ r.user.profile_data = known
             /\ r.user = [user EXCEPT !.profile_data = known]
             /\ (\E k \in DOMAIN items : items[k] \notin UnknownFields) =>
                  StoredUser(r.db)[1].profile_data = known
             /\ (\A k \in DOMAIN items : items[k] \in UnknownFields) => r.db = db

C20_Witness ==
  /\ event = "unknown_field_reported"
  /\ n_ops = 1
  /\ user.profile_data.age = 40
  /\ user.profile_data.weight_kg = 90
  /\ StoredUser(db)[1].profile_data = user.profile_data

C21Message == <<"I", "now", "weigh", "80", "kg", "and", "I", "want", "to", "build", "muscle">>

\* the model call of the last step answers C21Message, the first message or
\* /update of a session that started from the 175 cm / 75 kg profile
C21Handled ==
  /\ n_ops = 1
  /\ model_call # <<>>
  /\ model_call[1].input = C21Message

\* C21: from 175 cm and 75 kg, "I now weigh 80 kg and I want to build muscle"
\* yields exactly weight_kg = 80 and fitness_goal = "Muscle Gain"; both are
\* applied, the BMI reads 26.12 "Overweight", and after a "yes" to the prompt
\* both plans are the regenerated ones and the model call for the message
\* carries the new BMI, category and goal.
C21_WeighEightyBuildMuscle ==
  /\ parse_profile_update(C21Message) = [f \in {"weight_kg", "fitness_goal"} |->
                                          IF f = "weight_kg" THEN 80 ELSE "Muscle Gain"]
  /\ C21Handled =>
       /\ user.profile_data =
            [InitProfile EXCEPT !.weight_kg = 80, !.fitness_goal = "Muscle Gain"]
       /\ bmi(user.profile_data) = 2612
       /\ bmi_category(user.profile_data) = "Overweight"
  /\ (C21Handled /\ regen = "done") =>
       /\ PlansFrom(user, responses)
       /\ model_call[1].system_prompt.weight_kg = 80
       /\ model_call[1].system_prompt.bmi = 2612
       /\ model_call[1].system_prompt.bmi_category = "Overweight"
       /\ model_call[1].system_prompt.fitness_goal = "Muscle Gain"
       /\ model_call[1].system_prompt.workout_plan = <<WorkoutText(responses)>>
       /\ model_call[1].system_prompt.diet_plan = <<DietText(responses)>>

C21_Witness ==
  /\ C21Handled
  /\ regen = "done"
  /\ event = "replied"
  /\ update_plans = <<"yes">>
  /\ model_call[1].system_prompt.bmi = 2612
  /\ PlansFrom(StoredUser(db)[1], 1)

\* the message handled last, its updates applied: at the regeneration prompt,
\* or answered by the model
HandledMessage ==
  IF pc = "RegenPrompt" THEN <<user_message>>
  ELSE IF event = "replied" /\ model_call # <<>> THEN <<model_call[1].input>>
  ELSE <<>>

\* the value a numeric field has after a message when the first template that
\* matches decides alone: its capture if valid, else the old value
FirstTemplateNumber(pats, m, lo, hi, old) ==
  LET k == FirstMatching(pats, m, 1) IN
    IF k = 0 THEN old
    ELSE LET v == NumVal(Search(pats[k], m))
         IN IF lo <= v /\ v <= hi THEN v ELSE old

FirstTemplateActivity(m, old) ==
  LET k == FirstMatching(activity_patterns, m, 1) IN
    IF k = 0 THEN old
    ELSE LET c == Capitalize(Search(activity_patterns[k], m))
         IN IF c \in Range(ACTIVITY_LEVELS) THEN c ELSE old

\* C22: for weight, height, age and activity level the first template that
\* matches the message decides alone: the field takes its captured value when
\* that is valid and is left as it was when it is not, whatever later
\* templates would match.
C22_FirstMatchingTemplateDecides ==
  [][(pc = "AwaitingInput" /\ pc' = "RegenPrompt") \/
     (pc = "AwaitingInput" /\ event' = "replied" /\ model_call' # <<>>) =>
       \A m \in {LowerAll(IF pc' = "RegenPrompt" THEN user_message'
                                                ELSE model_call'[1].input)} :
         /\ user'.profile_data.weight_kg =
              FirstTemplateNumber(weight_patterns, m, MinWeight, MaxWeight,
                                  user.profile_data.weight_kg)
         /\ user'.profile_data.height_cm =
              FirstTemplateNumber(height_patterns, m, MinHeight, MaxHeight,
                                  user.profile_data.height_cm)
         /\ user'.profile_data.age =
              FirstTemplateNumber(age_patterns, m, MinAge, MaxAge, user.profile_data.age)
         /\ user'.profile_data.activity_level =
              FirstTemplateActivity(m, user.profile_data.activity_level)]_vars

\* C23: after a message that mentions "non-vegetarian" and neither "vegan"
\* nor "plant-based", the dietary preference is "Non-vegetarian".
C23_NonVegetarianExtracted ==
  \A msg \in Range(HandledMessage) :
    \A m \in {LowerAll(msg)} :
      (/\ Mentions(m, <<"non-vegetarian">>)
       /\ ~Mentions(m, <<"vegan">>)
       /\ ~Mentions(m, <<"plant-based">>))
        => /\ "dietary_preference" \in DOMAIN parse_profile_update(msg)
           /\ parse_profile_update(msg)["dietary_preference"] = "Non-vegetarian"
           /\ user.profile_data.dietary_preference = "Non-vegetarian"

\* C28: a message "I've lost X kg" or "I've gained X kg" with X in
\* [MinWeight, MaxWeight] sets weight_kg to X itself, whatever the weight
\* stored before.
C28_LostGainedSetsWeight ==
  \A msg \in Range(HandledMessage) :
    \A m \in {LowerAll(msg)} :
      (/\ Len(m) = 4
       /\ m[1] = "i've"
       /\ m[2] \in {"lost", "gained"}
       /\ m[3] \in NumWords
       /\ m[4] \in KgUnits
       /\ MinWeight <= NumVal(m[3]) /\ NumVal(m[3]) <= MaxWeight)
        => /\ user.profile_data.weight_kg = NumVal(m[3])
           /\ pc = "RegenPrompt" =>
                StoredUser(db)[1].profile_data.weight_kg = NumVal(m[3])

\* the user of 30 kg wrote "I've gained 130 kg": the weight is 130, not 160
C28_Witness ==
  /\ pc = "RegenPrompt"
  /\ user_message = <<"I've", "gained", "130", "kg">>
  /\ conversation.system_prompt.weight_kg = MinWeight
  /\ user.profile_data.weight_kg = 130

\* what was said in the turns of a history, without their timestamps
Turns(history) ==
  [i \in DOMAIN history |-> <<history[i].user_message, history[i].bot_reply>>]

\* C24: while the session awaits input and when it has ended, the stored
\* history is the history the session started from followed by the turns
\* exchanged since, in order, every turn stored once, however often the user
\* record was saved (the session's in-memory history is that sequence: it is
\* loaded at the start and only appended to).
C24_StoredHistoryOnce ==
  pc \in {"AwaitingInput", "Ended"} =>
    /\ Len(db.conversation_history) = Len(user.conversation_history)
    /\ Turns(get_user(db)[1].conversation_history) = Turns(user.conversation_history)

\* the input is neither the exit command nor starts with "/"
IsPlainMessage(msg) == ~IsCommand(msg, "--exit") /\ ~StartsWithSlash(msg)

C25_CredentialHasProfile ==
  /\ \A n \in DOMAIN auth : get_user(stores[auth[n].user_id]) # <<>>
  /\ main.event # "profile_not_found"

\* simple_login went as far as the initial plan generation of a new user
PlanGenerationAttempted ==
  main.event \in {"key_missing", "generate_failed", "save_failed", "registered"}

\* C26: when a new user registers and no API key is configured, the key has
\* been asked for (check_api_key) before the initial plan generation is
\* attempted, and the generation is never refused for the lack of a key.
C26_KeyAskedBeforePlanGeneration ==
  /\ (PlanGenerationAttempted /\ env = "") => main.asked
  /\ main.event # "key_missing"

\* C29: check_api_key returns True only when the key in the environment is
\* one the service accepts; a key that failed its validation does not make a
\* later call return True.
C29_TrueOnlyForValidKey ==
  main.returned = <<TRUE>> => env \in ValidKeys

\* the step is a login with a registered username and another password
WrongPasswordLogin ==
  /\ main.pc = "Login"
  /\ main'.pc # "Login"
  /\ main'.username \in DOMAIN auth
  /\ auth[main'.username].password_hash # hash_password(main'.password)

\* C30: a login with a registered username and a wrong password returns no
\* user (so not the profile of that username) and leaves the auth table and
\* every stored profile as they were.
C30_WrongPasswordChangesNothing ==
  [][WrongPasswordLogin =>
       /\ main'.user = <<>>
       /\ main'.pc = "Ended"
       /\ auth' = auth
       /\ stores' = stores]_vars

\* "luffy" is registered with a stored profile and someone just tried the
\* name with another, non-empty password
C30_Witness ==
  /\ main.event = "registration_failed"
  /\ main.username = "luffy"
  /\ main.password = "santoryu"
  /\ "luffy" \in DOMAIN auth
  /\ auth["luffy"] = AuthRow("gomu", "uuid-1")
  /\ get_user(stores["uuid-1"]) # <<>>

====
